---- MODULE Spec2Model ----
(***************************************************************************)
(* The ShippingInfo form component of the cart page                        *)
(* (apps/core/app/[locale]/(default)/cart/_components/shipping-info.tsx).  *)
(*                                                                         *)
(* State: the props (checkout, shippingCountries), the reducer state       *)
(* formValues, the calls made to the collaborators getShippingStates,      *)
(* submitShippingInfo, hideShippingOptions and toast.error, and whether    *)
(* the user has acted on the form since it was mounted (pristine).  Every  *)
(* event handler is one action; the render that follows it and the effect  *)
(* of that render are part of the action.                                  *)
(*                                                                         *)
(* Strings the code formats or splits (the country value                   *)
(* `${countryCode}-${id}`) are sequences of one-character strings; strings *)
(* the code only stores (state, city, postcode, entity ids) are TLA+       *)
(* strings.                                                                *)
(***************************************************************************)
EXTENDS Integers, Sequences, FiniteSets, TLC

\* checkout, shippingCountries: the props
\* formValues: the state of useReducer
\* lookups: the getShippingStates calls, in call order, with their results
\* submits: the submitShippingInfo calls, in call order, with their results
\* toasts, hideCalls: the number of toast.error and hideShippingOptions calls
\* pristine: no event handler has run since the mount
VARIABLES checkout, shippingCountries, formValues, lookups, submits, toasts, hideCalls, pristine

vars == <<checkout, shippingCountries, formValues, lookups, submits, toasts, hideCalls,
          pristine>>

(***************************************************************************)
(* Bounds of the model.                                                    *)
(***************************************************************************)
\* calls of the server actions getShippingStates and submitShippingInfo in
\* one behaviour
MaxCalls == 2

(***************************************************************************)
(* JavaScript values.                                                      *)
(***************************************************************************)
\* Number(x) of a string that is not a numeral
NaN == -1

Digits == <<"0", "1", "2", "3", "4", "5", "6", "7", "8", "9">>

IsDigit(c) == \E d \in 1..10 : Digits[d] = c

DigitValue(c) == (CHOOSE d \in 1..10 : Digits[d] = c) - 1

\* `${n}` of a non-negative integer
RECURSIVE NumberToString(_)
NumberToString(n) ==
    IF n < 10 THEN <<Digits[n + 1]>>
    ELSE NumberToString(n \div 10) \o <<Digits[(n % 10) + 1]>>

\* Number(s) of a string: its value when it is a decimal numeral, 0 when
\* it is empty, NaN otherwise
RECURSIVE DecimalValue(_)
DecimalValue(s) ==
    IF s = <<>> THEN 0
    ELSE 10 * DecimalValue(SubSeq(s, 1, Len(s) - 1)) + DigitValue(s[Len(s)])

Number(s) ==
    IF \A i \in 1..Len(s) : IsDigit(s[i]) THEN DecimalValue(s) ELSE NaN

\* s.split(sep): the pieces of s between the occurrences of sep
RECURSIVE Split(_, _)
Split(s, sep) ==
    IF \A i \in 1..Len(s) : s[i] # sep THEN <<s>>
    ELSE LET first == CHOOSE i \in 1..Len(s) :
                          s[i] = sep /\ \A j \in 1..(i - 1) : s[j] # sep
         IN  <<SubSeq(s, 1, first - 1)>> \o Split(SubSeq(s, first + 1, Len(s)), sep)

\* parts[i] with JavaScript's 0-based index: undefined past the end
Undefined == [defined |-> FALSE, str |-> <<>>]

At(parts, i) ==
    IF i + 1 <= Len(parts) THEN [defined |-> TRUE, str |-> parts[i + 1]]
    ELSE Undefined

\* truthiness of an optional string: undefined and '' are falsy
Truthy(x) == x.defined /\ x.str # <<>>

(***************************************************************************)
(* StatesList | null, and the optional `data` of a lookup result.          *)
(***************************************************************************)
Null == [isNull |-> TRUE, list |-> <<>>]

List(l) == [isNull |-> FALSE, list |-> l]

NoData == [present |-> FALSE, list |-> <<>>]

Data(l) == [present |-> TRUE, list |-> l]

(***************************************************************************)
(* Optional values (x | undefined): the empty sequence or <<x>>.           *)
(***************************************************************************)
Nothing == <<>>

Just(x) == <<x>>

\* a || b on optional objects: a when it is there, b otherwise
OrElse(a, b) == IF a # Nothing THEN a ELSE b

\* a nullable string of the checkout that is null
Absent == "<null>"

\* s || '': null and '' both give ''
OrEmpty(s) == IF s = Absent \/ s = "" THEN "" ELSE s

(***************************************************************************)
(* The props.                                                              *)
(***************************************************************************)
US == <<"U", "S">>

CA == <<"C", "A">>

MX == <<"M", "X">>

\* shippingCountries: what getShippingCountries returned
ShippingCountriesProp ==
    << [id |-> 226, countryCode |-> US, name |-> "United States"],
       [id |-> 38, countryCode |-> CA, name |-> "Canada"] >>

\* what the backend holds as the states of a country
BackendStates(countryId) ==
    IF countryId = 226
    THEN << [id |-> 57, state |-> "Texas", state_abbreviation |-> "TX", country_id |-> 226] >>
    ELSE IF countryId = 38
    THEN << [id |-> 9, state |-> "Ontario", state_abbreviation |-> "ON", country_id |-> 38] >>
    ELSE <<>>

ConsignmentUS ==
    [entityId |-> "consignment-us", selectedShippingOption |-> FALSE,
     address |-> [countryCode |-> US, stateOrProvince |-> "Texas",
                  city |-> "Austin", postalCode |-> "78701"]]

ConsignmentCA ==
    [entityId |-> "consignment-ca", selectedShippingOption |-> TRUE,
     address |-> [countryCode |-> CA, stateOrProvince |-> Absent,
                  city |-> "Toronto", postalCode |-> Absent]]

ConsignmentMX ==
    [entityId |-> "consignment-mx", selectedShippingOption |-> FALSE,
     address |-> [countryCode |-> MX, stateOrProvince |-> Absent,
                  city |-> "Leon", postalCode |-> "37000"]]

PhysicalItems ==
    << [entityId |-> "item-b", quantity |-> 2], [entityId |-> "item-a", quantity |-> 1] >>

\* the checkouts the form is mounted with
Checkouts ==
    { [entityId |-> "checkout-1", shippingConsignments |-> Nothing, cart |-> Nothing],
      [entityId |-> "checkout-2", shippingConsignments |-> Just(<<>>),
       cart |-> Just([physicalItems |-> <<>>])],
      [entityId |-> "checkout-3", shippingConsignments |-> Just(<<ConsignmentUS, ConsignmentCA>>),
       cart |-> Just([physicalItems |-> PhysicalItems])],
      [entityId |-> "checkout-4", shippingConsignments |-> Just(<<ConsignmentUS, ConsignmentMX>>),
       cart |-> Just([physicalItems |-> PhysicalItems])],
      [entityId |-> "checkout-5", shippingConsignments |-> Just(<<ConsignmentMX, ConsignmentUS>>),
       cart |-> Nothing] }

(***************************************************************************)
(* The component: values computed on every render.                         *)
(***************************************************************************)
\* list.find(P), given the indices of the elements satisfying P: the first
\* of them, as an optional
FindFirst(list, satisfying) ==
    IF satisfying # {}
    THEN Just(list[CHOOSE i \in satisfying : \A j \in satisfying : i <= j])
    ELSE Nothing

\* shippingConsignment without the search for a selected shipping option
shippingConsignmentFirst(co) ==
    IF co.shippingConsignments = Nothing \/ co.shippingConsignments[1] = <<>> THEN Nothing
    ELSE Just(co.shippingConsignments[1][1])

shippingConsignment(co) ==
    LET consignments == co.shippingConsignments
        selected == IF consignments = Nothing THEN Nothing
                    ELSE FindFirst(consignments[1],
                                   {i \in 1..Len(consignments[1]) :
                                       consignments[1][i].selectedShippingOption})
        first == IF consignments = Nothing \/ consignments[1] = <<>> THEN Nothing
                 ELSE Just(consignments[1][1])
    IN  OrElse(selected, first)

selectedShippingCountry(countries, co) ==
    LET consignment == shippingConsignment(co)
    IN  FindFirst(countries,
                  {i \in 1..Len(countries) :
                      /\ consignment # Nothing
                      /\ countries[i].countryCode = consignment[1].address.countryCode})

\* `${countryCode}-${id}`
CountryValue(country) == country.countryCode \o <<"-">> \o NumberToString(country.id)

\* the initial state of useReducer
initialFormValues(countries, co) ==
    LET consignment == shippingConsignment(co)
        country == selectedShippingCountry(countries, co)
    IN  [country |-> IF country # Nothing THEN CountryValue(country[1]) ELSE <<>>,
         states |-> List(<<>>),
         state |-> IF consignment = Nothing THEN ""
                   ELSE OrEmpty(consignment[1].address.stateOrProvince),
         city |-> IF consignment = Nothing THEN ""
                  ELSE OrEmpty(consignment[1].address.city),
         postcode |-> IF consignment = Nothing THEN ""
                      ELSE OrEmpty(consignment[1].address.postalCode)]

\* a reducer that replaces the values instead of merging into them
reducerReplace(currentValues, newValues) ==
    [k \in DOMAIN currentValues |->
        IF k \in DOMAIN newValues THEN newValues[k]
        ELSE IF k = "country" THEN <<>>
        ELSE IF k = "states" THEN List(<<>>)
        ELSE ""]

\* the reducer of useReducer: { ...currentValues, ...newValues }
reducer(currentValues, newValues) ==
    [k \in DOMAIN currentValues |->
        IF k \in DOMAIN newValues THEN newValues[k] ELSE currentValues[k]]

\* the effect taking the piece before the '-' as the country id
effectCountryCode(country) ==
    IF country # <<>>
    THEN LET countryId == At(Split(country, "-"), 0)
         IN  IF Truthy(countryId)
             THEN << [countryId |-> Number(countryId.str), status |-> "pending",
                      data |-> NoData] >>
             ELSE <<>>
    ELSE <<>>

\* one run of the effect's body: the getShippingStates calls it makes
effect(country) ==
    IF country # <<>>
    THEN LET countryId == At(Split(country, "-"), 1)
         IN  IF Truthy(countryId)
             THEN << [countryId |-> Number(countryId.str), status |-> "pending",
                      data |-> NoData] >>
             ELSE <<>>
    ELSE <<>>

\* useEffect without its dependency list: the effect runs after every render
useEffectEveryRender(previousCountry, country) == effect(country)

\* useEffect(..., [formValues.country, t]): after a render the effect runs
\* when the country differs from the previous render's (t is stable)
useEffect(previousCountry, country) ==
    IF country # previousCountry THEN effect(country) ELSE <<>>

\* fetchStates with an empty list, not null, for a failed lookup
fetchStatesEmptyOnFailure(status, data) ==
    IF status = "success" /\ data.present
    THEN [states |-> List(data.list)]
    ELSE [states |-> List(<<>>)]

\* what fetchStates passes to setFormValues when its lookup has resolved
fetchStates(status, data) ==
    IF status = "success" /\ data.present
    THEN [states |-> List(data.list)]
    ELSE [states |-> Null]

\* the setFormValues and hideShippingOptions calls of
\* resetFormFieldsOnCountryChange, which reads the country of the render
\* the handler was created in
resetFormFieldsOnCountryChange(renderedCountry) ==
    IF renderedCountry # <<>>
    THEN [set |-> <<[states |-> List(<<>>), state |-> "", city |-> "", postcode |-> ""]>>,
          hide |-> 1]
    ELSE [set |-> <<>>, hide |-> 0]

\* the second argument of submitShippingInfo
submitArguments(co) ==
    LET consignment == shippingConsignment(co)
    IN  [checkoutId |-> co.entityId,
         lineItems |->
            IF co.cart = Nothing THEN <<>>
            ELSE [i \in 1..Len(co.cart[1].physicalItems) |->
                    [lineItemEntityId |-> co.cart[1].physicalItems[i].entityId,
                     quantity |-> co.cart[1].physicalItems[i].quantity]],
         shippingId |-> IF consignment = Nothing THEN "" ELSE consignment[1].entityId]

\* onSubmit with the toast shown whatever the status
toastErrorsAlways(status) == 1

\* the toast.error calls of onSubmit for a result status
toastErrors(status) == IF status = "error" THEN 1 ELSE 0

\* the control rendered for the state field
stateField(values) ==
    IF ~values.states.isNull
    THEN [control |-> "select", disabled |-> Len(values.states.list) = 0,
          options |-> {values.states.list[i].state : i \in 1..Len(values.states.list)}]
    ELSE [control |-> "input", disabled |-> FALSE, options |-> {}]

\* the items of the country select
countryOptions(countries) == {CountryValue(countries[i]) : i \in 1..Len(countries)}

(***************************************************************************)
(* The inputs of the handlers.                                             *)
(***************************************************************************)
\* what the user types into the city, postcode and free-text state inputs
CityInputs == {"", "Austin"}

PostcodeInputs == {"", "78701"}

StateInputs == {"", "Bavaria"}

\* the values the country select reports: its items, and '' when cleared
CountryInputs == countryOptions(shippingCountries) \cup {<<>>}

\* the results getShippingStates resolves to for a country id
\* ({status: 'success', data} with data possibly missing or empty, or
\* {status: 'error'}, which carries no data)
LookupResults(countryId) ==
    {[status |-> "success", data |-> data] :
        data \in {NoData, Data(<<>>), Data(BackendStates(countryId))}}
    \cup {[status |-> "error", data |-> NoData]}

\* the result statuses of submitShippingInfo
SubmitStatuses == {"success", "error"}

(***************************************************************************)
(* The state machine.                                                      *)
(***************************************************************************)
\* the server-action calls made so far
Calls == Len(lookups) + Len(submits)

\* the lookups that have not resolved yet
InFlight == {i \in 1..Len(lookups) : lookups[i].status = "pending"}

\* the submit button is disabled while a submission is pending
SubmitPending == submits # <<>> /\ submits[Len(submits)].status = "pending"

\* the setFormValues calls of one handler, applied in order by the reducer
RECURSIVE dispatchAll(_, _)
dispatchAll(values, updates) ==
    IF updates = <<>> THEN values
    ELSE dispatchAll(reducer(values, Head(updates)), Tail(updates))

\* the render after a handler's setFormValues calls, and its effect
Render(updates) ==
    LET values == dispatchAll(formValues, updates)
        started == useEffect(formValues.country, values.country)
    IN  /\ Calls + Len(started) <= MaxCalls
        /\ formValues' = values
        /\ lookups' = lookups \o started

Init ==
    /\ checkout \in Checkouts
    /\ shippingCountries = ShippingCountriesProp
    /\ formValues = initialFormValues(shippingCountries, checkout)
    /\ lookups = effect(formValues.country)
    /\ submits = <<>>
    /\ toasts = 0
    /\ hideCalls = 0
    /\ pristine = TRUE

\* onValueChange of the country select.  The select is controlled by
\* formValues.country and reports a value only when it differs from it.  Both
\* setFormValues calls are batched into one render; the guard of
\* resetFormFieldsOnCountryChange sees the country of the render before them.
onValueChange(value) ==
    /\ value # formValues.country
    /\ LET countryId == At(Split(value, "-"), 1)
           reset == resetFormFieldsOnCountryChange(formValues.country)
       IN  /\ Render(<<[country |-> IF Truthy(countryId) THEN value ELSE <<>>]>>
                      \o reset.set)
           /\ hideCalls' = hideCalls + reset.hide
    /\ UNCHANGED <<checkout, shippingCountries, submits, toasts>>
    /\ pristine' = FALSE

\* the await of fetchStates returns
fetchStatesResolved(i, status, data) ==
    /\ i \in InFlight
    /\ lookups' = [lookups EXCEPT ![i].status = status, ![i].data = data]
    /\ formValues' = reducer(formValues, fetchStates(status, data))
    /\ UNCHANGED <<checkout, shippingCountries, submits, toasts, hideCalls, pristine>>

\* onValueChange of the state select (one of its items, when it is not
\* disabled), onChange of the state input
onStateChange(value) ==
    /\ value # formValues.state
    /\ LET field == stateField(formValues)
       IN  IF field.control = "select"
           THEN ~field.disabled /\ value \in field.options
           ELSE value \in StateInputs
    /\ Render(<<[state |-> value]>>)
    /\ UNCHANGED <<checkout, shippingCountries, submits, toasts, hideCalls>>
    /\ pristine' = FALSE

\* onChange of the city input
onCityChange(value) ==
    /\ value # formValues.city
    /\ Render(<<[city |-> value]>>)
    /\ UNCHANGED <<checkout, shippingCountries, submits, toasts, hideCalls>>
    /\ pristine' = FALSE

\* onChange of the postcode input
onPostcodeChange(value) ==
    /\ value # formValues.postcode
    /\ Render(<<[postcode |-> value]>>)
    /\ UNCHANGED <<checkout, shippingCountries, submits, toasts, hideCalls>>
    /\ pristine' = FALSE

\* onSubmit up to its await: the call of submitShippingInfo
onSubmit ==
    /\ ~SubmitPending
    /\ Calls < MaxCalls
    /\ submits' = Append(submits, [arguments |-> submitArguments(checkout),
                                   status |-> "pending"])
    /\ UNCHANGED <<checkout, shippingCountries, formValues, lookups, toasts, hideCalls>>
    /\ pristine' = FALSE

\* onSubmit after its await
onSubmitResolved(status) ==
    /\ SubmitPending
    /\ submits' = [submits EXCEPT ![Len(submits)].status = status]
    /\ toasts' = toasts + toastErrors(status)
    /\ UNCHANGED <<checkout, shippingCountries, formValues, lookups, hideCalls, pristine>>

Next ==
    \/ \E value \in CountryInputs : onValueChange(value)
    \/ \E i \in 1..Len(lookups) : \E result \in LookupResults(lookups[i].countryId) :
          fetchStatesResolved(i, result.status, result.data)
    \/ \E value \in StateInputs \cup stateField(formValues).options : onStateChange(value)
    \/ \E value \in CityInputs : onCityChange(value)
    \/ \E value \in PostcodeInputs : onPostcodeChange(value)
    \/ onSubmit
    \/ \E status \in SubmitStatuses : onSubmitResolved(status)

Spec == Init /\ [][Next]_vars

(***************************************************************************)
(* Vocabulary of the properties.                                           *)
(***************************************************************************)
\* the id of the shipping country whose select item is the value
CountryIdOf(value) ==
    shippingCountries[CHOOSE i \in 1..Len(shippingCountries) :
                          CountryValue(shippingCountries[i]) = value].id

\* lookup i did not end as a success carrying data
Failed(lookup) ==
    lookup.status # "pending" /\ ~(lookup.status = "success" /\ lookup.data.present)

\* lookup i resolves in this step
Resolves(i) == lookups[i].status = "pending" /\ lookups'[i].status # "pending"

\* the lookups this step starts
Started == SubSeq(lookups', Len(lookups) + 1, Len(lookups'))

\* the lookups made for a country id, and the most recent of them
LookupsFor(countryId) == {i \in 1..Len(lookups) : lookups[i].countryId = countryId}

LatestFor(countryId) ==
    CHOOSE i \in LookupsFor(countryId) : \A j \in LookupsFor(countryId) : j <= i

\* the first consignment with a selected shipping option, else the first
\* consignment, else none
ChosenConsignment ==
    LET consignments == IF checkout.shippingConsignments = Nothing THEN <<>>
                        ELSE checkout.shippingConsignments[1]
        selected == {i \in 1..Len(consignments) : consignments[i].selectedShippingOption}
    IN  IF selected # {}
        THEN Just(consignments[CHOOSE i \in selected : \A j \in selected : i <= j])
        ELSE IF Len(consignments) > 0 THEN Just(consignments[1])
        ELSE Nothing

\* the shipping countries with the chosen consignment's country code
PrefillCountries ==
    {i \in 1..Len(shippingCountries) :
        /\ ChosenConsignment # Nothing
        /\ shippingCountries[i].countryCode = ChosenConsignment[1].address.countryCode}

\* the form was mounted with a country
Prefilled == PrefillCountries # {}

(***************************************************************************)
(* C1.  A lookup that resolves to anything but a success carrying data     *)
(* sets the state list to null, a lookup that resolves to a success with   *)
(* data sets the state list to exactly that data, and while the state list *)
(* is null the state field is the free-text input, not the dropdown.       *)
(***************************************************************************)
C1_LookupResultSetsStates ==
    /\ [][\A i \in 1..Len(lookups) :
            Resolves(i) =>
                IF lookups'[i].status = "success" /\ lookups'[i].data.present
                THEN formValues'.states = List(lookups'[i].data.list)
                ELSE formValues'.states = Null]_vars
    /\ [](formValues.states = Null <=> stateField(formValues).control = "input")

C1_Witness ==
    \E i, j \in 1..Len(lookups) :
        /\ i < j
        /\ lookups[i].status = "success" /\ lookups[i].data.list # <<>>
        /\ lookups[j].status = "error"
        /\ formValues.states = Null
        /\ stateField(formValues).control = "input"

(***************************************************************************)
(* C4.  Every submission is one call of submitShippingInfo; the error      *)
(* toasts shown are one per submission that resolved with status 'error'   *)
(* and none for any other; a submission resolving with 'error' leaves the  *)
(* form values unchanged.                                                  *)
(***************************************************************************)
C4_ToastPerFailedSubmit ==
    /\ [](toasts = Cardinality({i \in 1..Len(submits) : submits[i].status = "error"}))
    /\ [][/\ Len(submits') \in {Len(submits), Len(submits) + 1}
          /\ \A i \in 1..Len(submits) :
                (submits[i].status = "pending" /\ submits'[i].status = "error")
                    => /\ formValues' = formValues
                       /\ Len(submits') = Len(submits)]_vars

C4_Witness ==
    /\ Len(submits) = 2
    /\ submits[1].status = "success"
    /\ submits[2].status = "error"
    /\ toasts = 1

(***************************************************************************)
(* C5.  A step that changes the country to a non-empty value starts        *)
(* exactly one lookup, for the id of that country; a step that leaves the  *)
(* country empty, and a step that does not change the country, start none. *)
(***************************************************************************)
C5_OneLookupPerCountryChange ==
    [][/\ (formValues'.country # formValues.country /\ formValues'.country # <<>>)
            => Started = << [countryId |-> CountryIdOf(formValues'.country),
                             status |-> "pending", data |-> NoData] >>
       /\ formValues'.country = <<>> => Started = <<>>
       /\ formValues'.country = formValues.country => Started = <<>>]_vars

C5_Witness ==
    /\ Len(lookups) = 2
    /\ lookups[1].countryId = 38
    /\ lookups[2].countryId = 226
    /\ formValues.country = <<"U", "S", "-", "2", "2", "6">>
    /\ formValues.city = "Austin"

(***************************************************************************)
(* C6.  Every call of submitShippingInfo carries the checkout's entity id, *)
(* one {lineItemEntityId, quantity} per physical item in cart order (none  *)
(* without a cart), and as shippingId the entity id of the first           *)
(* consignment with a selected shipping option, else of the first          *)
(* consignment, else ''.                                                   *)
(***************************************************************************)
C6_SubmitArguments ==
    \A n \in 1..Len(submits) :
        LET arguments == submits[n].arguments
            items == IF checkout.cart = Nothing THEN <<>>
                     ELSE checkout.cart[1].physicalItems
        IN  /\ arguments.checkoutId = checkout.entityId
            /\ Len(arguments.lineItems) = Len(items)
            /\ \A i \in 1..Len(items) :
                  /\ arguments.lineItems[i].lineItemEntityId = items[i].entityId
                  /\ arguments.lineItems[i].quantity = items[i].quantity
            /\ arguments.shippingId =
                  IF ChosenConsignment = Nothing THEN "" ELSE ChosenConsignment[1].entityId

C6_Witness ==
    /\ Len(submits) = 1
    /\ submits[1].arguments.shippingId = "consignment-ca"
    /\ Len(submits[1].arguments.lineItems) = 2
    /\ submits[1].status = "success"
    /\ formValues.city = "Austin"

(***************************************************************************)
(* C9.  Updates merge.  A step that resolves a lookup changes only the     *)
(* state list; any other step that keeps the country changes at most one   *)
(* of state, city and postcode and nothing else of the form; neither calls *)
(* hideShippingOptions.                                                    *)
(***************************************************************************)
C9_UpdatesMerge ==
    [][/\ (\E i \in 1..Len(lookups) : Resolves(i))
            => /\ formValues'.country = formValues.country
               /\ formValues'.state = formValues.state
               /\ formValues'.city = formValues.city
               /\ formValues'.postcode = formValues.postcode
               /\ hideCalls' = hideCalls
       /\ (formValues'.country = formValues.country
             /\ \A i \in 1..Len(lookups) : ~Resolves(i))
            => /\ formValues'.states = formValues.states
               /\ Cardinality({k \in {"state", "city", "postcode"} :
                                  formValues'[k] # formValues[k]}) <= 1
               /\ hideCalls' = hideCalls]_vars

C9_Witness ==
    /\ checkout.shippingConsignments = Nothing
    /\ formValues.country = <<"U", "S", "-", "2", "2", "6">>
    /\ formValues.states = List(BackendStates(226))
    /\ formValues.state = "Texas"
    /\ formValues.city = "Austin"
    /\ formValues.postcode = "78701"

(***************************************************************************)
(* C10.  On mount the country is '<countryCode>-<id>' of the shipping      *)
(* country with the chosen consignment's country code ('' without one),    *)
(* the state list is empty, state, city and postcode are the consignment's *)
(* ('' when absent), and a prefilled country has exactly one lookup, for   *)
(* its id, started; until the user acts this stays so, also once that      *)
(* lookup has resolved.                                                    *)
(***************************************************************************)
C10_AddressField(field) ==
    IF ChosenConsignment = Nothing \/ ChosenConsignment[1].address[field] = Absent THEN ""
    ELSE ChosenConsignment[1].address[field]

C10_MountPrefill ==
    pristine =>
        LET first == CHOOSE i \in PrefillCountries : \A j \in PrefillCountries : i <= j
        IN  /\ formValues.country =
                  IF Prefilled
                  THEN shippingCountries[first].countryCode \o <<"-">>
                           \o NumberToString(shippingCountries[first].id)
                  ELSE <<>>
            /\ formValues.state = C10_AddressField("stateOrProvince")
            /\ formValues.city = C10_AddressField("city")
            /\ formValues.postcode = C10_AddressField("postalCode")
            /\ Len(lookups) = IF Prefilled THEN 1 ELSE 0
            /\ \A i \in 1..Len(lookups) :
                  /\ lookups[i].countryId = shippingCountries[first].id
                  /\ lookups[i].status = "pending" => formValues.states = List(<<>>)
            /\ lookups = <<>> => formValues.states = List(<<>>)
            /\ hideCalls = 0

C10_Witness ==
    /\ pristine
    /\ checkout.entityId = "checkout-3"
    /\ lookups = << [countryId |-> 38, status |-> "success",
                     data |-> Data(BackendStates(38))] >>
    /\ formValues = [country |-> <<"C", "A", "-", "3", "8">>,
                     states |-> List(BackendStates(38)),
                     state |-> "", city |-> "Toronto", postcode |-> ""]

(***************************************************************************)
(* C2.  In every reachable state the state list is the empty array while a *)
(* lookup for the selected country is in flight, and null when the most    *)
(* recent lookup for the selected country has failed.                      *)
(***************************************************************************)
C2_EmptyWhileLoadingNullOnFailure ==
    formValues.country # <<>> =>
        LET id == CountryIdOf(formValues.country)
        IN  /\ (\E i \in InFlight : lookups[i].countryId = id)
                  => formValues.states = List(<<>>)
            /\ (LookupsFor(id) # {} /\ Failed(lookups[LatestFor(id)]))
                  => formValues.states = Null

(***************************************************************************)
(* C3.  Once the lookup for a selected country has resolved without any    *)
(* state (a failure, or a success with an empty list), the state field is  *)
(* an enabled text input.  Stated for a form mounted without a country in  *)
(* which a single lookup has been made.                                    *)
(***************************************************************************)
C3_NoSubdivisionsGivesTextInput ==
    (/\ ~Prefilled
     /\ formValues.country # <<>>
     /\ Len(lookups) = 1
     /\ lookups[1].countryId = CountryIdOf(formValues.country)
     /\ lookups[1].status # "pending"
     /\ (Failed(lookups[1]) \/ lookups[1].data.list = <<>>))
        => /\ stateField(formValues).control = "input"
           /\ ~stateField(formValues).disabled

(***************************************************************************)
(* C7.  Every selection of a country leaves the state list empty, state,   *)
(* city and postcode '' and calls hideShippingOptions exactly once,        *)
(* whether or not a country was selected before.                           *)
(***************************************************************************)
C7_SelectionCascades ==
    [][formValues'.country # formValues.country
         => /\ formValues'.states = List(<<>>)
            /\ formValues'.state = ""
            /\ formValues'.city = ""
            /\ formValues'.postcode = ""
            /\ hideCalls' = hideCalls + 1]_vars

(***************************************************************************)
(* C8.  Once no lookup is in flight, the state list is the outcome of the  *)
(* most recent lookup for the selected country: its states on success,     *)
(* null on failure.                                                        *)
(***************************************************************************)
C8_StatesOfSelectedCountry ==
    (/\ InFlight = {}
     /\ formValues.country # <<>>
     /\ LookupsFor(CountryIdOf(formValues.country)) # {})
        => LET latest == lookups[LatestFor(CountryIdOf(formValues.country))]
           IN  formValues.states =
                  IF latest.status = "success" /\ latest.data.present
                  THEN List(latest.data.list)
                  ELSE Null

====
